---- MODULE Spec2Model ----
(***************************************************************************)
(* Model of the NEAR lite client: the block validation engine              *)
(* (block_validation.rs), the hashing scheme it depends on (types.rs) and  *)
(* the client facade that commits an accepted block as the new head.       *)
(***************************************************************************)
EXTENDS Integers, Sequences, FiniteSets, TLC

(***************************************************************************)
(* Bounds of the model.  u64 and u128 are scaled down to U64Max and        *)
(* BalanceMax: arithmetic on them overflows past these values exactly as   *)
(* the machine types overflow past 2^64 - 1 and 2^128 - 1.                 *)
(***************************************************************************)
U64Max == 3
BalanceMax == 15
MaxApprovals == 2
MaxEpoch == 3
MaxPathLen == 3

(***************************************************************************)
(* Primitive layer.                                                        *)
(***************************************************************************)
\* Option<T>: None is the empty sequence, Some(x) the one-element sequence.
None == <<>>
Some(x) == <<x>>
is_none(o) == Len(o) = 0
is_some(o) == Len(o) = 1
unwrap(o) == o[1]

\* CryptoHash([n; 32]): a 32-byte hash given by its content.
CryptoHash(n) == <<"raw", n>>

\* One byte of a byte string, and the 32 bytes of a hash kept as one chunk.
U8(b) == <<"u8", b>>
HashBytes(h) == <<"hash", h>>
HashLen == 32

\* Digest::digest (SHA-256): collision free, the digest of data is the term.
Digest(data) == <<"sha256", data>>

\* Fixed-width little-endian integer of w bytes.
RECURSIVE to_le_bytes(_, _)
to_le_bytes(n, w) ==
    IF w = 0 THEN <<>> ELSE <<U8(n % 256)>> \o to_le_bytes(n \div 256, w - 1)

\* Concatenation of a sequence of byte strings.
RECURSIVE concat(_)
concat(parts) ==
    IF parts = <<>> THEN <<>> ELSE Head(parts) \o concat(Tail(parts))

(***************************************************************************)
(* Canonical (borsh) encoding of the domain types.                         *)
(***************************************************************************)
\* near_crypto::PublicKey: key-type byte, then the key data.
ED25519 == "ED25519"
SECP256K1 == "SECP256K1"
PublicKey(type, id) == [key_type |-> type, data |-> id]
borsh_PublicKey(pk) ==
    IF pk.key_type = ED25519
    THEN <<U8(0), HashBytes(CryptoHash(pk.data))>>
    ELSE <<U8(1), HashBytes(CryptoHash(pk.data)), HashBytes(CryptoHash(pk.data))>>

\* String: u32 length prefix, then the bytes.
borsh_String(s) == to_le_bytes(Len(s), 4) \o [i \in 1..Len(s) |-> U8(s[i])]

\* ValidatorStakeView::V1(ValidatorStakeViewV1): tag byte 0, then the fields.
ValidatorStakeViewV1(account, pk, stake) ==
    [account_id |-> account, public_key |-> pk, stake |-> stake]
borsh_ValidatorStakeView(v) ==
    <<U8(0)>> \o borsh_String(v.account_id) \o borsh_PublicKey(v.public_key)
              \o to_le_bytes(v.stake, 16)

\* Vec<ValidatorStakeView>: u32 length prefix, then the elements.
borsh_next_bps(bps) ==
    to_le_bytes(Len(bps), 4)
        \o concat([i \in 1..Len(bps) |-> borsh_ValidatorStakeView(bps[i])])

\* BlockHeaderInnerLiteViewFinal::from: the inner lite without timestamp_nanosec.
BlockHeaderInnerLiteViewFinal(b) ==
    [height |-> b.height, epoch_id |-> b.epoch_id,
     next_epoch_id |-> b.next_epoch_id, prev_state_root |-> b.prev_state_root,
     outcome_root |-> b.outcome_root, timestamp |-> b.timestamp,
     next_bp_hash |-> b.next_bp_hash, block_merkle_root |-> b.block_merkle_root]

borsh_BlockHeaderInnerLiteViewFinal(f) ==
    to_le_bytes(f.height, 8) \o
    <<HashBytes(f.epoch_id), HashBytes(f.next_epoch_id),
      HashBytes(f.prev_state_root), HashBytes(f.outcome_root)>> \o
    to_le_bytes(f.timestamp, 8) \o
    <<HashBytes(f.next_bp_hash), HashBytes(f.block_merkle_root)>>

\* BlockHeaderInnerLiteView: the fields in declared order.
borsh_BlockHeaderInnerLiteView(b) ==
    to_le_bytes(b.height, 8) \o
    <<HashBytes(b.epoch_id), HashBytes(b.next_epoch_id),
      HashBytes(b.prev_state_root), HashBytes(b.outcome_root)>> \o
    to_le_bytes(b.timestamp, 8) \o to_le_bytes(b.timestamp_nanosec, 8) \o
    <<HashBytes(b.next_bp_hash), HashBytes(b.block_merkle_root)>>

\* ApprovalInner::Endorsement(hash): tag byte 0, then the hash.
borsh_ApprovalInner_Endorsement(h) == <<U8(0), HashBytes(h)>>

(***************************************************************************)
(* Hashing module.                                                         *)
(***************************************************************************)
\* current_block_hash with prev_block_hash hashed first.
current_block_hash_prev_first(inner_lite_hash, inner_rest_hash, prev_block_hash) ==
    Digest(<<HashBytes(prev_block_hash),
             HashBytes(Digest(<<HashBytes(inner_lite_hash),
                                 HashBytes(inner_rest_hash)>>))>>)

current_block_hash(inner_lite_hash, inner_rest_hash, prev_block_hash) ==
    Digest(<<HashBytes(Digest(<<HashBytes(inner_lite_hash),
                                 HashBytes(inner_rest_hash)>>)),
             HashBytes(prev_block_hash)>>)

\* LightClientBlockView::current_block_hash hashing the whole inner lite,
\* timestamp_nanosec included.
LightClientBlockView_current_block_hash_of_whole_inner_lite(block_view) ==
    current_block_hash(
        Digest(borsh_BlockHeaderInnerLiteView(block_view.inner_lite)),
        block_view.inner_rest_hash,
        block_view.prev_block_hash)

LightClientBlockView_current_block_hash(block_view) ==
    current_block_hash(
        Digest(borsh_BlockHeaderInnerLiteViewFinal(
                   BlockHeaderInnerLiteViewFinal(block_view.inner_lite))),
        block_view.inner_rest_hash,
        block_view.prev_block_hash)

next_block_hash(next_block_inner_hash, current) ==
    Digest(<<HashBytes(next_block_inner_hash), HashBytes(current)>>)

\* The outcome of u64 `height + 2`: with overflow checks the addition panics
\* past U64Max, without them it wraps.
height_plus_2(height, overflow_checks) ==
    IF height + 2 > U64Max
    THEN (IF overflow_checks THEN [panic |-> TRUE, value |-> 0]
          ELSE [panic |-> FALSE, value |-> (height + 2) % (U64Max + 1)])
    ELSE [panic |-> FALSE, value |-> height + 2]

\* (current_block_hash, next_block_hash, approval_message), or a panic.
reconstruct_light_client_block_view_fields(block_view, overflow_checks) ==
    LET current == LightClientBlockView_current_block_hash(block_view)
        next == next_block_hash(block_view.next_block_inner_hash, current)
        h2 == height_plus_2(block_view.inner_lite.height, overflow_checks)
    IN  [panic |-> h2.panic,
         current_block_hash |-> current,
         next_block_hash |-> next,
         approval_message |->
             borsh_ApprovalInner_Endorsement(next) \o to_le_bytes(h2.value, 8)]

(***************************************************************************)
(* Merkle proof verifier (merkle_tree.rs).                                 *)
(***************************************************************************)
Left == "Left"
Right == "Right"
MerklePathItem(hash, direction) == [hash |-> hash, direction |-> direction]

\* combine_hash with the two hashes encoded in the other order.
combine_hash_swapped(hash1, hash2) ==
    Digest(<<HashBytes(hash2), HashBytes(hash1)>>)

\* combine_hash: the digest of the encoded pair (hash1, hash2), 64 bytes.
combine_hash(hash1, hash2) ==
    Digest(<<HashBytes(hash1), HashBytes(hash2)>>)

\* One turn of compute_root_from_path's loop: the accumulator after item.
compute_root_step(item, accumulator) ==
    IF item.direction = Left
    THEN combine_hash(item.hash, accumulator)
    ELSE combine_hash(accumulator, item.hash)

(***************************************************************************)
(* Signatures.  A signature is what a secret key produced over a message:  *)
(* it verifies under a list of 32-byte keys when the message is the one    *)
(* signed and the signer's key is one of the list.                         *)
(***************************************************************************)
Signature(signer, message) == [signer |-> signer, message |-> message]

Signature_verify(sig, message, public_keys) ==
    /\ sig.message = message
    /\ \E i \in 1..Len(public_keys) : public_keys[i] = sig.signer

\* PublicKey -> [u8; 32]: only an ED25519 key converts.
PublicKey_try_into(pk) ==
    IF pk.key_type = ED25519 THEN Some(pk.data) ELSE None

(***************************************************************************)
(* Canonical encoding and decoding of the types that are received as bytes *)
(* (the BorshSerialize and BorshDeserialize implementations types.rs       *)
(* derives).  A reader takes a byte string and gives [ok, value, rest]:    *)
(* whether it could read a value from the front, the value, and the bytes  *)
(* after it.                                                               *)
(***************************************************************************)
\* The 64 bytes of an ED25519 signature, kept as one chunk.
SignatureBytes(sig) == <<"sig", sig>>

\* near_crypto::Signature: key-type byte, then the signature data.
borsh_Signature(sig) == <<U8(0), SignatureBytes(sig)>>

\* Option<Signature>: one byte 0, or one byte 1 and the signature.
borsh_Option_Signature(o) ==
    IF is_none(o) THEN <<U8(0)>> ELSE <<U8(1)>> \o borsh_Signature(unwrap(o))

\* Vec<Option<Signature>>: u32 length prefix, then the elements.
borsh_approvals_after_next(approvals) ==
    to_le_bytes(Len(approvals), 4)
        \o concat([i \in 1..Len(approvals) |->
                      borsh_Option_Signature(approvals[i])])

\* Option<Vec<ValidatorStakeView>>
borsh_Option_next_bps(o) ==
    IF is_none(o) THEN <<U8(0)>> ELSE <<U8(1)>> \o borsh_next_bps(unwrap(o))

\* LightClientBlockView: the fields in declared order.
borsh_LightClientBlockView(v) ==
    <<HashBytes(v.prev_block_hash), HashBytes(v.next_block_inner_hash)>>
        \o borsh_BlockHeaderInnerLiteView(v.inner_lite)
        \o <<HashBytes(v.inner_rest_hash)>>
        \o borsh_Option_next_bps(v.next_bps)
        \o borsh_approvals_after_next(v.approvals_after_next)

\* Direction: the variant's index; MerklePathItem: hash, then direction.
borsh_Direction(d) == IF d = Left THEN <<U8(0)>> ELSE <<U8(1)>>
borsh_MerklePathItem(item) ==
    <<HashBytes(item.hash)>> \o borsh_Direction(item.direction)

\* What a reader gives.
Ok(value, rest) == [ok |-> TRUE, value |-> value, rest |-> rest]
Err == [ok |-> FALSE, value |-> <<>>, rest |-> <<>>]

\* The element of a one-element set.
Only(S) == CHOOSE x \in S : TRUE

\* The first n chunks of a byte string are single bytes.
has_bytes(bytes, n) ==
    Len(bytes) >= n /\ \A i \in 1..n : bytes[i][1] = "u8"

\* The little-endian value of the first w bytes.
RECURSIVE le_value(_, _)
le_value(bytes, w) ==
    IF w = 0 THEN 0 ELSE Head(bytes)[2] + 256 * le_value(Tail(bytes), w - 1)

\* Fixed-width little-endian integer of w bytes (u8, u32, u64, u128).
read_le_bytes(bytes, w) ==
    IF has_bytes(bytes, w)
    THEN Ok(le_value(bytes, w), SubSeq(bytes, w + 1, Len(bytes)))
    ELSE Err

\* CryptoHash: 32 bytes.
read_CryptoHash(bytes) ==
    IF bytes # <<>> /\ Head(bytes)[1] = "hash"
    THEN Ok(Head(bytes)[2], Tail(bytes))
    ELSE Err

\* String: u32 length prefix, then the bytes.
read_String(bytes) ==
    Only({IF len.ok /\ has_bytes(len.rest, len.value)
          THEN Ok([i \in 1..len.value |-> len.rest[i][2]],
                  SubSeq(len.rest, len.value + 1, Len(len.rest)))
          ELSE Err :
          len \in {read_le_bytes(bytes, 4)}})

\* near_crypto::PublicKey: key-type byte 0 and 32 bytes, or 1 and 64 bytes.
read_PublicKey(bytes) ==
    Only({IF ~tag.ok THEN Err
          ELSE IF tag.value = 0
          THEN Only({IF key.ok
                     THEN Ok(PublicKey(ED25519, key.value[2]), key.rest)
                     ELSE Err :
                     key \in {read_CryptoHash(tag.rest)}})
          ELSE IF tag.value = 1
          THEN Only({IF key.ok /\ Len(key.rest) > 0 /\ key.rest[1][1] = "hash"
                     THEN Ok(PublicKey(SECP256K1, key.value[2]), Tail(key.rest))
                     ELSE Err :
                     key \in {read_CryptoHash(tag.rest)}})
          ELSE Err :
          tag \in {read_le_bytes(bytes, 1)}})

\* near_crypto::Signature: key-type byte 0 and the 64 bytes of the signature.
read_Signature(bytes) ==
    IF /\ Len(bytes) >= 2
       /\ bytes[1] = U8(0)
       /\ bytes[2][1] = "sig"
    THEN Ok(bytes[2][2], SubSeq(bytes, 3, Len(bytes)))
    ELSE Err

\* Direction: the variant's index, 0 or 1.
read_Direction(bytes) ==
    IF bytes # <<>> /\ Head(bytes) = U8(0) THEN Ok(Left, Tail(bytes))
    ELSE IF bytes # <<>> /\ Head(bytes) = U8(1) THEN Ok(Right, Tail(bytes))
    ELSE Err

\* A value of a type, by the name of the type.
RECURSIVE read(_, _)

\* The fields of the given types, one after the other, after those read.
RECURSIVE read_fields(_, _, _)
read_fields(bytes, types, values) ==
    IF types = <<>> THEN Ok(values, bytes)
    ELSE Only({IF field.ok
               THEN read_fields(field.rest, Tail(types),
                                Append(values, field.value))
               ELSE Err :
               field \in {read(Head(types), bytes)}})

\* n more elements of a Vec of the type, after those read.
RECURSIVE read_elements(_, _, _, _)
read_elements(bytes, type, n, elements) ==
    IF n = 0 THEN Ok(elements, bytes)
    ELSE Only({IF element.ok
               THEN read_elements(element.rest, type, n - 1,
                                  Append(elements, element.value))
               ELSE Err :
               element \in {read(type, bytes)}})

\* Vec<T>: u32 length prefix, then the elements.
read_Vec(bytes, type) ==
    Only({IF len.ok THEN read_elements(len.rest, type, len.value, <<>>)
          ELSE Err :
          len \in {read_le_bytes(bytes, 4)}})

\* Option<T>: one byte 0, or one byte 1 and the value.
read_Option(bytes, type) ==
    IF bytes # <<>> /\ Head(bytes) = U8(0) THEN Ok(None, Tail(bytes))
    ELSE IF bytes # <<>> /\ Head(bytes) = U8(1)
    THEN Only({IF inner.ok THEN Ok(Some(inner.value), inner.rest) ELSE Err :
               inner \in {read(type, Tail(bytes))}})
    ELSE Err

\* ValidatorStakeView: tag byte 0 (V1), then account_id, public_key, stake.
ValidatorStakeViewV1_fields == <<"String", "PublicKey", "u128">>
read_ValidatorStakeView(bytes) ==
    IF bytes # <<>> /\ Head(bytes) = U8(0)
    THEN Only({IF v1.ok
               THEN Ok(ValidatorStakeViewV1(v1.value[1], v1.value[2],
                                            v1.value[3]),
                       v1.rest)
               ELSE Err :
               v1 \in {read_fields(Tail(bytes), ValidatorStakeViewV1_fields,
                                   <<>>)}})
    ELSE Err

\* BlockHeaderInnerLiteView: the fields in declared order.
BlockHeaderInnerLiteView_fields ==
    <<"u64", "CryptoHash", "CryptoHash", "CryptoHash", "CryptoHash", "u64",
      "u64", "CryptoHash", "CryptoHash">>
read_BlockHeaderInnerLiteView(bytes) ==
    Only({IF f.ok
          THEN Ok([height |-> f.value[1],
                   epoch_id |-> f.value[2],
                   next_epoch_id |-> f.value[3],
                   prev_state_root |-> f.value[4],
                   outcome_root |-> f.value[5],
                   timestamp |-> f.value[6],
                   timestamp_nanosec |-> f.value[7],
                   next_bp_hash |-> f.value[8],
                   block_merkle_root |-> f.value[9]],
                  f.rest)
          ELSE Err :
          f \in {read_fields(bytes, BlockHeaderInnerLiteView_fields, <<>>)}})

\* The fields of LightClientBlockView with next_bps before inner_rest_hash.
LightClientBlockView_fields_next_bps_first ==
    <<"CryptoHash", "CryptoHash", "BlockHeaderInnerLiteView",
      "Option<Vec<ValidatorStakeView>>", "CryptoHash", "Vec<Option<Signature>>">>

\* The types of the fields of LightClientBlockView, in declared order.
LightClientBlockView_fields ==
    <<"CryptoHash", "CryptoHash", "BlockHeaderInnerLiteView", "CryptoHash",
      "Option<Vec<ValidatorStakeView>>", "Vec<Option<Signature>>">>

read_LightClientBlockView(bytes) ==
    Only({IF f.ok
          THEN Ok([prev_block_hash |-> f.value[1],
                   next_block_inner_hash |-> f.value[2],
                   inner_lite |-> f.value[3],
                   inner_rest_hash |-> f.value[4],
                   next_bps |-> f.value[5],
                   approvals_after_next |-> f.value[6]],
                  f.rest)
          ELSE Err :
          f \in {read_fields(bytes, LightClientBlockView_fields, <<>>)}})

\* MerklePathItem: hash, then direction.
MerklePathItem_fields == <<"CryptoHash", "Direction">>
read_MerklePathItem(bytes) ==
    Only({IF f.ok THEN Ok(MerklePathItem(f.value[1], f.value[2]), f.rest)
          ELSE Err :
          f \in {read_fields(bytes, MerklePathItem_fields, <<>>)}})

read(type, bytes) ==
    CASE type = "u64" -> read_le_bytes(bytes, 8)
      [] type = "u128" -> read_le_bytes(bytes, 16)
      [] type = "CryptoHash" -> read_CryptoHash(bytes)
      [] type = "String" -> read_String(bytes)
      [] type = "PublicKey" -> read_PublicKey(bytes)
      [] type = "Signature" -> read_Signature(bytes)
      [] type = "Direction" -> read_Direction(bytes)
      [] type = "ValidatorStakeView" -> read_ValidatorStakeView(bytes)
      [] type = "Vec<ValidatorStakeView>" -> read_Vec(bytes, "ValidatorStakeView")
      [] type = "Option<Vec<ValidatorStakeView>>" ->
             read_Option(bytes, "Vec<ValidatorStakeView>")
      [] type = "Option<Signature>" -> read_Option(bytes, "Signature")
      [] type = "Vec<Option<Signature>>" -> read_Vec(bytes, "Option<Signature>")
      [] type = "BlockHeaderInnerLiteView" -> read_BlockHeaderInnerLiteView(bytes)
      [] type = "LightClientBlockView" -> read_LightClientBlockView(bytes)
      [] type = "MerklePathItem" -> read_MerklePathItem(bytes)
      [] type = "MerklePath" -> read_Vec(bytes, "MerklePathItem")

\* The types that derive BorshDeserialize, and those of them that derive
\* BorshSerialize as well.
BorshDeserialize_types == {"LightClientBlockView", "MerklePathItem", "MerklePath"}
BorshSerialize_types == {"LightClientBlockView", "MerklePathItem"}

\* BorshDeserialize::try_from_slice: the value read from the whole of the
\* bytes; bytes left over are an error.
try_from_slice(type, bytes) ==
    Only({IF r.ok /\ r.rest = <<>> THEN Ok(r.value, <<>>) ELSE Err :
          r \in {read(type, bytes)}})

\* BorshSerialize::try_to_vec
try_to_vec(type, value) ==
    CASE type = "LightClientBlockView" -> borsh_LightClientBlockView(value)
      [] type = "MerklePathItem" -> borsh_MerklePathItem(value)

(***************************************************************************)
(* Block validation engine.                                                *)
(***************************************************************************)
TRUE_ == "true"
FALSE_ == "false"
PANIC == "panic"

Min(a, b) == IF a < b THEN a ELSE b

\* u128 addition and multiplication: past BalanceMax the operation panics
\* with overflow checks and wraps without them.
u128_overflows(x) == x > BalanceMax
u128_wrap(x) == x % (BalanceMax + 1)

\* HashMap::iter(): the entries in the order `order`, a permutation of them.
HashMap_iter(epoch_block_producers, order) ==
    [i \in 1..Len(epoch_block_producers) |-> epoch_block_producers[order[i]]]

\* The loop going on past the end of the approvals: a producer without a
\* position in approvals_after_next counts as one that did not sign.
RECURSIVE approvals_loop_over_all_producers(_, _, _, _, _, _, _)
approvals_loop_over_all_producers(approvals, producers, approval_message, overflow_checks, i, total_stake, approved_stake) ==
    IF i > Len(producers)
    THEN [outcome |-> "done", total_stake |-> total_stake,
          approved_stake |-> approved_stake]
    ELSE
      LET maybe_signature == IF i <= Len(approvals) THEN approvals[i] ELSE None
          validator_stake == producers[i]
          bp_stake == validator_stake.stake
          total1 == total_stake + bp_stake
          approved1 == approved_stake + bp_stake
          validator_public_key == PublicKey_try_into(validator_stake.public_key)
          stop(verdict) == [outcome |-> verdict, total_stake |-> total_stake,
                            approved_stake |-> approved_stake]
      IN  IF u128_overflows(total1) /\ overflow_checks THEN stop(PANIC)
          ELSE IF is_none(maybe_signature)
          THEN approvals_loop_over_all_producers(
                   approvals, producers, approval_message, overflow_checks,
                   i + 1, u128_wrap(total1), approved_stake)
          ELSE IF u128_overflows(approved1) /\ overflow_checks THEN stop(PANIC)
          ELSE IF is_none(validator_public_key) THEN stop(PANIC)
          ELSE IF ~Signature_verify(unwrap(maybe_signature), approval_message,
                                    <<unwrap(validator_public_key)>>)
          THEN stop(FALSE_)
          ELSE approvals_loop_over_all_producers(
                   approvals, producers, approval_message, overflow_checks,
                   i + 1, u128_wrap(total1), u128_wrap(approved1))

\* Rules (4) and (5): the loop over approvals zipped with block producers,
\* from position i on.  It ends with a verdict, or "done" and the two sums.
RECURSIVE approvals_loop(_, _, _, _, _, _, _)
approvals_loop(approvals, producers, approval_message, overflow_checks, i, total_stake, approved_stake) ==
    IF i > Min(Len(approvals), Len(producers))
    THEN [outcome |-> "done", total_stake |-> total_stake,
          approved_stake |-> approved_stake]
    ELSE
      LET maybe_signature == approvals[i]
          validator_stake == producers[i]
          bp_stake == validator_stake.stake
          total1 == total_stake + bp_stake
          approved1 == approved_stake + bp_stake
          validator_public_key == PublicKey_try_into(validator_stake.public_key)
          stop(verdict) == [outcome |-> verdict, total_stake |-> total_stake,
                            approved_stake |-> approved_stake]
      IN  IF u128_overflows(total1) /\ overflow_checks THEN stop(PANIC)
          ELSE IF is_none(maybe_signature)
          THEN approvals_loop(approvals, producers, approval_message,
                              overflow_checks, i + 1, u128_wrap(total1),
                              approved_stake)
          ELSE IF u128_overflows(approved1) /\ overflow_checks THEN stop(PANIC)
          ELSE IF is_none(validator_public_key) THEN stop(PANIC)
          ELSE IF ~Signature_verify(unwrap(maybe_signature), approval_message,
                                    <<unwrap(validator_public_key)>>)
          THEN stop(FALSE_)
          ELSE approvals_loop(approvals, producers, approval_message,
                              overflow_checks, i + 1, u128_wrap(total1),
                              u128_wrap(approved1))

\* The result of the quorum check and of rule (6), after the loop.
quorum_and_next_bps(block_view, total_stake, approved_stake, overflow_checks) ==
    IF u128_overflows(total_stake * 2) /\ overflow_checks THEN PANIC
    ELSE
      LET threshold == u128_wrap(total_stake * 2) \div 3
      IN  IF approved_stake <= threshold THEN FALSE_
          ELSE IF is_none(block_view.next_bps) THEN PANIC
          ELSE IF Digest(borsh_next_bps(unwrap(block_view.next_bps)))
                    # block_view.inner_lite.next_bp_hash
          THEN FALSE_
          ELSE TRUE_

\* validate_light_block with rule (1) letting through a block view at the
\* head's own height.
validate_light_block_height_not_lower(head, block_view, epoch_block_producers, order, overflow_checks) ==
    LET fields == reconstruct_light_client_block_view_fields(block_view,
                                                             overflow_checks)
    IN  IF fields.panic THEN PANIC
        ELSE IF block_view.inner_lite.height < head.inner_lite.height
        THEN FALSE_
        ELSE IF block_view.inner_lite.epoch_id
                    \notin {head.inner_lite.epoch_id, head.inner_lite.next_epoch_id}
        THEN FALSE_
        ELSE IF /\ block_view.inner_lite.epoch_id = head.inner_lite.next_epoch_id
                /\ is_none(block_view.next_bps)
        THEN FALSE_
        ELSE
          LET loop == approvals_loop(block_view.approvals_after_next,
                                     HashMap_iter(epoch_block_producers, order),
                                     fields.approval_message, overflow_checks,
                                     1, 0, 0)
          IN  IF loop.outcome # "done" THEN loop.outcome
              ELSE quorum_and_next_bps(block_view, loop.total_stake,
                                       loop.approved_stake, overflow_checks)

\* validate_light_block with one rule more: the block view's
\* prev_block_hash is the head's current block hash.
validate_light_block_descending_from_head(head, block_view, epoch_block_producers, order, overflow_checks) ==
    LET fields == reconstruct_light_client_block_view_fields(block_view,
                                                             overflow_checks)
    IN  IF fields.panic THEN PANIC
        ELSE IF block_view.inner_lite.height <= head.inner_lite.height
        THEN FALSE_
        ELSE IF block_view.inner_lite.epoch_id
                    \notin {head.inner_lite.epoch_id, head.inner_lite.next_epoch_id}
        THEN FALSE_
        ELSE IF /\ block_view.inner_lite.epoch_id = head.inner_lite.next_epoch_id
                /\ is_none(block_view.next_bps)
        THEN FALSE_
        ELSE IF block_view.prev_block_hash
                    # LightClientBlockView_current_block_hash(head)
        THEN FALSE_
        ELSE
          LET loop == approvals_loop(block_view.approvals_after_next,
                                     HashMap_iter(epoch_block_producers, order),
                                     fields.approval_message, overflow_checks,
                                     1, 0, 0)
          IN  IF loop.outcome # "done" THEN loop.outcome
              ELSE quorum_and_next_bps(block_view, loop.total_stake,
                                       loop.approved_stake, overflow_checks)

\* validate_light_block: "true", "false", or "panic" when the call aborts.
\* `order` is the order in which the HashMap yields the block producers.
validate_light_block(head, block_view, epoch_block_producers, order, overflow_checks) ==
    LET fields == reconstruct_light_client_block_view_fields(block_view,
                                                             overflow_checks)
    IN  IF fields.panic THEN PANIC
        ELSE IF block_view.inner_lite.height <= head.inner_lite.height
        THEN FALSE_
        ELSE IF block_view.inner_lite.epoch_id
                    \notin {head.inner_lite.epoch_id, head.inner_lite.next_epoch_id}
        THEN FALSE_
        ELSE IF /\ block_view.inner_lite.epoch_id = head.inner_lite.next_epoch_id
                /\ is_none(block_view.next_bps)
        THEN FALSE_
        ELSE
          LET loop == approvals_loop(block_view.approvals_after_next,
                                     HashMap_iter(epoch_block_producers, order),
                                     fields.approval_message, overflow_checks,
                                     1, 0, 0)
          IN  IF loop.outcome # "done" THEN loop.outcome
              ELSE quorum_and_next_bps(block_view, loop.total_stake,
                                       loop.approved_stake, overflow_checks)

(***************************************************************************)
(* Inputs: keys, block producer sets, block views.                         *)
(***************************************************************************)
K1 == PublicKey(ED25519, 1)
K2 == PublicKey(ED25519, 2)
K3 == PublicKey(SECP256K1, 3)

\* Two producers holding 2 and 1 of a total stake of 3.
BpsTwo == <<ValidatorStakeViewV1(<<97>>, K1, 2), ValidatorStakeViewV1(<<98>>, K2, 1)>>
\* Two producers that share a key and hold 1 and 3.
BpsShared == <<ValidatorStakeViewV1(<<97>>, K1, 1), ValidatorStakeViewV1(<<98>>, K1, 3)>>
\* Stakes whose sum exceeds BalanceMax.
BpsHuge == <<ValidatorStakeViewV1(<<97>>, K1, BalanceMax \div 2 + 1),
             ValidatorStakeViewV1(<<98>>, K2, BalanceMax \div 2 + 1)>>
\* Stakes whose sum fits and whose doubled sum exceeds BalanceMax.
BpsLarge == <<ValidatorStakeViewV1(<<97>>, K1, BalanceMax \div 2),
              ValidatorStakeViewV1(<<98>>, K2, 2)>>
\* A producer whose key is not a 32-byte key.
BpsSecp == <<ValidatorStakeViewV1(<<97>>, K3, 1)>>
\* A single producer.
BpsOne == <<ValidatorStakeViewV1(<<97>>, K1, 1)>>

CheckpointValidators ==
    {<<>>, BpsOne, BpsTwo, BpsShared, BpsHuge, BpsLarge, BpsSecp}
\* (next_bps, next_bp_hash) of the block views: no next producers, or
\* BpsTwo with its digest or with another hash.
NextBpsChoices ==
    {<<None, CryptoHash(0)>>,
     <<Some(BpsTwo), Digest(borsh_next_bps(BpsTwo))>>,
     <<Some(BpsTwo), CryptoHash(0)>>}

\* (epoch_id, next_epoch_id) of the block views: epoch e is followed by
\* epoch e + 1, cyclically.
EpochPairs ==
    {<<CryptoHash(e), CryptoHash((e % MaxEpoch) + 1)>> : e \in 1..MaxEpoch}

\* A block view without approvals.
LightClientBlockView(height, epochs, next_bps, next_bp_hash) ==
    [prev_block_hash |-> CryptoHash(0),
     next_block_inner_hash |-> CryptoHash(0),
     inner_lite |-> [height |-> height,
                     epoch_id |-> epochs[1],
                     next_epoch_id |-> epochs[2],
                     prev_state_root |-> CryptoHash(0),
                     outcome_root |-> CryptoHash(0),
                     timestamp |-> 1,
                     timestamp_nanosec |-> 0,
                     next_bp_hash |-> next_bp_hash,
                     block_merkle_root |-> CryptoHash(0)],
     inner_rest_hash |-> CryptoHash(0),
     next_bps |-> next_bps,
     approvals_after_next |-> <<>>]

BlockViews ==
    {LightClientBlockView(h, ep, bps[1], bps[2]) :
        h \in 0..U64Max, ep \in EpochPairs, bps \in NextBpsChoices}

\* The approval message the producers of a block view sign.
ApprovalMessage(block_view) ==
    reconstruct_light_client_block_view_fields(block_view, FALSE).approval_message

\* What one position of approvals_after_next can hold for a block view: no
\* signature, the signature of K1 or of K2 over its approval message, or a
\* forged signature that no key produced.
Forged == Signature(0, <<>>)
ApprovalChoices(block_view) ==
    {None, Some(Forged)} \cup
    {Some(Signature(k, ApprovalMessage(block_view))) : k \in {K1.data, K2.data}}

ApprovalLists(block_view) ==
    UNION {[1..n -> ApprovalChoices(block_view)] : n \in 0..MaxApprovals}

\* The orders in which a HashMap of n entries can yield them.
IterationOrders(n) ==
    {f \in [1..n -> 1..n] : \A i, j \in 1..n : i # j => f[i] # f[j]}

(***************************************************************************)
(* Client facade and its caller.  A call of validate_and_update_head runs  *)
(* to its end in one step; its arguments and its result stay until the     *)
(* caller returns from the call, and the next call starts after that.      *)
(***************************************************************************)
VARIABLES
    head,                \* the last accepted block view
    current_validators,  \* the block producers of the head's epoch
    overflow_checks,     \* whether the build checks arithmetic overflow
    block_view,          \* the block view passed to the call
    order,               \* the order the HashMap yielded the producers in
    verdict,             \* "none" outside a call, else what the call did
    prev_head,           \* the head when the call started
    prev_validators      \* the block producers when the call started

\* The callers of the library functions: of the hashing module, of the
\* Merkle proof verifier and of the canonical encoding.
VARIABLES
    view_a,              \* a block view whose hashes are reconstructed
    view_b,              \* another block view, hashed alongside view_a
    hash_a,              \* Some(view_a.current_block_hash()) once computed
    hash_b,              \* Some(view_b.current_block_hash()) once computed
    fields,              \* Some(what reconstruct_..._fields(view_a) did)
    path,                \* the MerklePath passed to compute_root_from_path
    item_hash,           \* the leaf hash passed to compute_root_from_path
    res,                 \* compute_root_from_path's accumulator
    items_done,          \* how many items of path its loop went through
    wire_type,           \* the domain type a byte string is decoded into
    sent,                \* the value the sender encoded
    wire,                \* the byte string received
    decoded,             \* Some(result of try_from_slice) once decoded
    reencoded            \* Some(try_to_vec of the decoded value) once encoded

\* A caller of validate_light_block itself, with heads of its own choice.
VARIABLES
    head_a,                  \* a head
    head_b,                  \* another head, passed alongside head_a
    candidate_view,          \* the block view passed with either head
    epoch_block_producers,   \* the block producers passed with either head
    result_a,                \* Some(validate_light_block(head_a, ..)) once called
    result_b                 \* Some(validate_light_block(head_b, ..)) once called

facade_vars == <<head, current_validators, block_view, order, verdict,
                 prev_head, prev_validators>>
hash_vars == <<view_a, view_b, hash_a, hash_b, fields>>
merkle_vars == <<path, item_hash, res, items_done>>
codec_vars == <<wire_type, sent, wire, decoded, reencoded>>
validation_vars == <<head_a, head_b, candidate_view, epoch_block_producers,
                     result_a, result_b>>

vars == <<facade_vars, overflow_checks, hash_vars, merkle_vars, codec_vars,
          validation_vars>>

\* The library functions are not in use.
no_hashing ==
    /\ view_a = None /\ view_b = None
    /\ hash_a = None /\ hash_b = None /\ fields = None
no_merkle ==
    /\ path = <<>> /\ item_hash = CryptoHash(0)
    /\ res = CryptoHash(0) /\ items_done = 0
no_codec ==
    /\ wire_type = "" /\ sent = <<>> /\ wire = <<>>
    /\ decoded = None /\ reencoded = None
no_validation ==
    /\ head_a = None /\ head_b = None /\ candidate_view = None
    /\ epoch_block_producers = <<>>
    /\ result_a = None /\ result_b = None

\* The trusted checkpoints: a head at the lowest or the highest height, of
\* epoch 1, the next epoch being 2 or again 1.
CheckpointHeads ==
    {LightClientBlockView(h, ep, None, CryptoHash(0)) :
        h \in {0, U64Max},
        ep \in {<<CryptoHash(1), CryptoHash(1)>>, <<CryptoHash(1), CryptoHash(2)>>}}

\* No call in progress.
no_call ==
    /\ block_view' = head'
    /\ order' = <<>>
    /\ verdict' = "none"
    /\ prev_head' = head'
    /\ prev_validators' = current_validators'

\* LightClient::with_checkpoint
Init ==
    /\ head \in CheckpointHeads
    /\ current_validators \in CheckpointValidators
    /\ overflow_checks \in BOOLEAN
    /\ block_view = head
    /\ order = <<>>
    /\ verdict = "none"
    /\ prev_head = head
    /\ prev_validators = current_validators
    /\ no_hashing /\ no_merkle /\ no_codec /\ no_validation

\* rotate_validators with the block view's epoch compared with the old
\* head's epoch instead of its next epoch.
rotate_validators_on_epoch_change(old_head, new_head, validators) ==
    IF new_head.inner_lite.epoch_id # old_head.inner_lite.epoch_id
    THEN unwrap(new_head.next_bps)
    ELSE validators

\* The block producers the facade keeps when it accepts new_head.
rotate_validators(old_head, new_head, validators) ==
    IF new_head.inner_lite.epoch_id = old_head.inner_lite.next_epoch_id
    THEN unwrap(new_head.next_bps)
    ELSE validators

\* validate_and_update_head storing the block view as the head before it
\* is validated.
validate_and_update_head_stores_first(candidate, iteration_order) ==
    LET result == validate_light_block(head, candidate, current_validators,
                                       iteration_order, overflow_checks)
    IN  /\ verdict = "none"
        /\ block_view' = candidate
        /\ order' = iteration_order
        /\ verdict' = result
        /\ prev_head' = head
        /\ prev_validators' = current_validators
        /\ head' = candidate
        /\ IF result = TRUE_
           THEN current_validators' =
                    rotate_validators(head, candidate, current_validators)
           ELSE UNCHANGED current_validators
        /\ UNCHANGED overflow_checks

\* LightClient::validate_and_update_head
validate_and_update_head(candidate, iteration_order) ==
    LET result == validate_light_block(head, candidate, current_validators,
                                       iteration_order, overflow_checks)
    IN  /\ verdict = "none"
        /\ block_view' = candidate
        /\ order' = iteration_order
        /\ verdict' = result
        /\ prev_head' = head
        /\ prev_validators' = current_validators
        /\ IF result = TRUE_
           THEN /\ head' = candidate
                /\ current_validators' =
                       rotate_validators(head, candidate, current_validators)
           ELSE UNCHANGED <<head, current_validators>>
        /\ UNCHANGED overflow_checks

\* The caller returns from the call.
call_returns ==
    /\ verdict # "none"
    /\ UNCHANGED <<head, current_validators, overflow_checks>>
    /\ no_call
    /\ UNCHANGED <<hash_vars, merkle_vars, codec_vars, validation_vars>>

\* The caller calls validate_and_update_head with some block view.
call ==
    /\ verdict = "none"
    /\ \E base \in BlockViews :
         \E approvals \in ApprovalLists(base) :
           \E iteration_order \in IterationOrders(Len(current_validators)) :
             validate_and_update_head(
                 [base EXCEPT !.approvals_after_next = approvals],
                 iteration_order)
    /\ UNCHANGED <<hash_vars, merkle_vars, codec_vars, validation_vars>>

Next ==
    \/ call
    \/ call_returns

Spec == Init /\ [][Next]_vars

(***************************************************************************)
(* A caller of the hashing module: it holds two block views, the second    *)
(* being the first with at most one field replaced, and calls              *)
(* current_block_hash() on each and reconstruct_light_client_block_view_   *)
(* fields on the first.                                                    *)
(***************************************************************************)
\* The facade is not in use.
no_facade ==
    /\ head = LightClientBlockView(0, <<CryptoHash(1), CryptoHash(2)>>, None,
                                   CryptoHash(0))
    /\ current_validators = <<>>
    /\ block_view = head
    /\ order = <<>>
    /\ verdict = "none"
    /\ prev_head = head
    /\ prev_validators = current_validators

\* A block view with one field replaced by another value, or left as it is.
Perturbed(v) ==
    {v,
     [v EXCEPT !.inner_lite.timestamp_nanosec = 1 - @],
     [v EXCEPT !.inner_lite.timestamp = 3 - @],
     [v EXCEPT !.inner_lite.height = U64Max - @],
     [v EXCEPT !.inner_lite.epoch_id = CryptoHash(0)],
     [v EXCEPT !.inner_lite.next_epoch_id = CryptoHash(0)],
     [v EXCEPT !.inner_lite.prev_state_root = CryptoHash(1)],
     [v EXCEPT !.inner_lite.outcome_root = CryptoHash(1)],
     [v EXCEPT !.inner_lite.next_bp_hash = CryptoHash(1)],
     [v EXCEPT !.inner_lite.block_merkle_root = CryptoHash(1)],
     [v EXCEPT !.inner_rest_hash = CryptoHash(1)],
     [v EXCEPT !.prev_block_hash = CryptoHash(1)],
     [v EXCEPT !.next_block_inner_hash = CryptoHash(1)],
     [v EXCEPT !.next_bps = Some(BpsShared)],
     [v EXCEPT !.approvals_after_next = <<None>>]}

HashInit ==
    /\ view_a \in BlockViews
    /\ view_b \in Perturbed(view_a)
    /\ overflow_checks \in BOOLEAN
    /\ hash_a = None /\ hash_b = None /\ fields = None
    /\ no_facade /\ no_merkle /\ no_codec /\ no_validation

\* view_a.current_block_hash()
hash_view_a ==
    /\ hash_a = None
    /\ hash_a' = Some(LightClientBlockView_current_block_hash(view_a))
    /\ UNCHANGED <<view_a, view_b, hash_b, fields>>
    /\ UNCHANGED <<facade_vars, overflow_checks, merkle_vars, codec_vars,
                   validation_vars>>

\* view_b.current_block_hash()
hash_view_b ==
    /\ hash_b = None
    /\ hash_b' = Some(LightClientBlockView_current_block_hash(view_b))
    /\ UNCHANGED <<view_a, view_b, hash_a, fields>>
    /\ UNCHANGED <<facade_vars, overflow_checks, merkle_vars, codec_vars,
                   validation_vars>>

\* reconstruct_light_client_block_view_fields(&view_a)
reconstruct_fields ==
    /\ fields = None
    /\ fields' = Some(reconstruct_light_client_block_view_fields(
                          view_a, overflow_checks))
    /\ UNCHANGED <<view_a, view_b, hash_a, hash_b>>
    /\ UNCHANGED <<facade_vars, overflow_checks, merkle_vars, codec_vars,
                   validation_vars>>

HashNext ==
    \/ hash_view_a
    \/ hash_view_b
    \/ reconstruct_fields

HashSpec == HashInit /\ [][HashNext]_vars

(***************************************************************************)
(* A caller of compute_root_from_path: the loop over the path goes through *)
(* one item at a step, res being the hash computed so far.                 *)
(***************************************************************************)
MerklePaths ==
    UNION {[1..n -> {MerklePathItem(CryptoHash(h), d) :
                        h \in {1, 2}, d \in {Left, Right}}] :
           n \in 0..MaxPathLen}

\* compute_root_from_path(&path, item_hash): let mut res = item_hash
MerkleInit ==
    /\ path \in MerklePaths
    /\ item_hash \in {CryptoHash(0), CryptoHash(1)}
    /\ res = item_hash
    /\ items_done = 0
    /\ overflow_checks = FALSE
    /\ no_facade /\ no_hashing /\ no_codec /\ no_validation

\* The loop's turn for an item of direction Left.
fold_left_item ==
    /\ items_done < Len(path)
    /\ path[items_done + 1].direction = Left
    /\ res' = compute_root_step(path[items_done + 1], res)
    /\ items_done' = items_done + 1
    /\ UNCHANGED <<path, item_hash>>
    /\ UNCHANGED <<facade_vars, overflow_checks, hash_vars, codec_vars,
                   validation_vars>>

\* The loop's turn for an item of direction Right.
fold_right_item ==
    /\ items_done < Len(path)
    /\ path[items_done + 1].direction = Right
    /\ res' = compute_root_step(path[items_done + 1], res)
    /\ items_done' = items_done + 1
    /\ UNCHANGED <<path, item_hash>>
    /\ UNCHANGED <<facade_vars, overflow_checks, hash_vars, codec_vars,
                   validation_vars>>

MerkleNext ==
    \/ fold_left_item
    \/ fold_right_item

MerkleSpec == MerkleInit /\ [][MerkleNext]_vars

(***************************************************************************)
(* A receiver of encoded values: it decodes a byte string into one of the  *)
(* types and, where the type has an encoder, encodes the value again.      *)
(***************************************************************************)
\* The block views that are sent: of the lowest and of the highest height,
\* with approvals, and with next_bps that hold a key of either type.
CodecBases ==
    {LightClientBlockView(h, <<CryptoHash(1), CryptoHash(2)>>, bps[1], bps[2]) :
        h \in {0, U64Max}, bps \in NextBpsChoices}
CodecViews ==
    UNION {{[base EXCEPT !.approvals_after_next = approvals] :
               approvals \in ApprovalLists(base)} : base \in CodecBases}
    \cup {[base EXCEPT !.next_bps = Some(BpsSecp \o BpsShared)] :
             base \in CodecBases}

\* The values of a type that are sent.
SentValues(type) ==
    CASE type = "LightClientBlockView" -> CodecViews
      [] type = "MerklePathItem" ->
             {MerklePathItem(CryptoHash(h), d) : h \in {1, 2}, d \in {Left, Right}}
      [] type = "MerklePath" -> MerklePaths

\* The canonical byte string of a value, as its sender encodes it.
Canonical(type, value) ==
    CASE type = "LightClientBlockView" -> borsh_LightClientBlockView(value)
      [] type = "MerklePathItem" -> borsh_MerklePathItem(value)
      [] type = "MerklePath" ->
             to_le_bytes(Len(value), 4)
                 \o concat([i \in 1..Len(value) |->
                               borsh_MerklePathItem(value[i])])

\* The byte strings received for a byte string sent: the string itself,
\* the string cut short by a byte, the string followed by one byte more.
Wires(b) == {b, SubSeq(b, 1, Len(b) - 1), b \o <<U8(1)>>}

CodecInit ==
    /\ wire_type \in BorshDeserialize_types
    /\ sent \in SentValues(wire_type)
    /\ wire \in Wires(Canonical(wire_type, sent))
    /\ decoded = None
    /\ reencoded = None
    /\ overflow_checks = FALSE
    /\ no_facade /\ no_hashing /\ no_merkle /\ no_validation

\* BorshDeserialize::try_from_slice(wire)
decode ==
    /\ decoded = None
    /\ decoded' = Some(try_from_slice(wire_type, wire))
    /\ UNCHANGED <<wire_type, sent, wire, reencoded>>
    /\ UNCHANGED <<facade_vars, overflow_checks, hash_vars, merkle_vars,
                   validation_vars>>

\* try_to_vec() of the decoded value, for a type that has it.
encode ==
    /\ is_some(decoded) /\ unwrap(decoded).ok
    /\ wire_type \in BorshSerialize_types
    /\ reencoded = None
    /\ reencoded' = Some(try_to_vec(wire_type, unwrap(decoded).value))
    /\ UNCHANGED <<wire_type, sent, wire, decoded>>
    /\ UNCHANGED <<facade_vars, overflow_checks, hash_vars, merkle_vars,
                   validation_vars>>

CodecNext ==
    \/ decode
    \/ encode

CodecSpec == CodecInit /\ [][CodecNext]_vars

(***************************************************************************)
(* A caller of validate_light_block: it holds two heads, the second being  *)
(* the first with at most one field replaced, a block view that may have   *)
(* the first head's hash as its prev_block_hash, and block producers, and  *)
(* calls validate_light_block with each head.                              *)
(***************************************************************************)
\* Every producer's signature over the block view's approval message.
AllApprove(view, producers) ==
    [i \in 1..Len(producers) |->
        Some(Signature(producers[i].public_key.data, ApprovalMessage(view)))]

ValidationInit ==
    /\ head_a \in CheckpointHeads
    /\ head_b \in Perturbed(head_a)
    /\ epoch_block_producers \in {BpsOne, BpsTwo}
    /\ overflow_checks \in BOOLEAN
    /\ \E base \in BlockViews :
         \E prev \in {CryptoHash(0),
                      LightClientBlockView_current_block_hash(head_a)} :
           \E approvals \in {<<>>, AllApprove([base EXCEPT !.prev_block_hash = prev],
                                              epoch_block_producers)} :
             candidate_view = [base EXCEPT !.prev_block_hash = prev,
                                      !.approvals_after_next = approvals]
    /\ result_a = None /\ result_b = None
    /\ no_facade /\ no_hashing /\ no_merkle /\ no_codec

\* validate_light_block(&head_a, &candidate_view, &epoch_block_producers)
validate_with_head_a ==
    /\ result_a = None
    /\ result_a' = Some(validate_light_block(
                            head_a, candidate_view, epoch_block_producers,
                            [i \in 1..Len(epoch_block_producers) |-> i],
                            overflow_checks))
    /\ UNCHANGED <<head_a, head_b, candidate_view, epoch_block_producers, result_b>>
    /\ UNCHANGED <<facade_vars, overflow_checks, hash_vars, merkle_vars,
                   codec_vars>>

\* validate_light_block(&head_b, &candidate_view, &epoch_block_producers)
validate_with_head_b ==
    /\ result_b = None
    /\ result_b' = Some(validate_light_block(
                            head_b, candidate_view, epoch_block_producers,
                            [i \in 1..Len(epoch_block_producers) |-> i],
                            overflow_checks))
    /\ UNCHANGED <<head_a, head_b, candidate_view, epoch_block_producers, result_a>>
    /\ UNCHANGED <<facade_vars, overflow_checks, hash_vars, merkle_vars,
                   codec_vars>>

ValidationNext ==
    \/ validate_with_head_a
    \/ validate_with_head_b

ValidationSpec == ValidationInit /\ [][ValidationNext]_vars

(***************************************************************************)
(* The six acceptance rules as the specification states them, over the     *)
(* head H, the block view B and the ordered list V of block producers.     *)
(***************************************************************************)
RECURSIVE StakeOf(_, _)
StakeOf(V, positions) ==
    IF positions = {} THEN 0
    ELSE LET i == CHOOSE x \in positions : TRUE
         IN  V[i].stake + StakeOf(V, positions \ {i})

\* The positions that approvals and producers have in common.
Zipped(B, V) == 1..Min(Len(B.approvals_after_next), Len(V))
\* Those of them that carry a signature.
Signed(B, V) == {i \in Zipped(B, V) : is_some(B.approvals_after_next[i])}

\* The signature at position i verifies under the key of producer V[i].
ValidAt(B, V, i) ==
    /\ V[i].public_key.key_type = ED25519
    /\ unwrap(B.approvals_after_next[i]).signer = V[i].public_key.data
    /\ unwrap(B.approvals_after_next[i]).message = ApprovalMessage(B)

Rule1(H, B) == B.inner_lite.height > H.inner_lite.height
Rule2(H, B) ==
    \/ B.inner_lite.epoch_id = H.inner_lite.epoch_id
    \/ B.inner_lite.epoch_id = H.inner_lite.next_epoch_id
Rule3(H, B) ==
    B.inner_lite.epoch_id = H.inner_lite.next_epoch_id => is_some(B.next_bps)
Rule4(B, V) == \A i \in Signed(B, V) : ValidAt(B, V, i)
Rule5(B, V) == 3 * StakeOf(V, Signed(B, V)) > 2 * StakeOf(V, Zipped(B, V))
Rule6(B) ==
    is_some(B.next_bps) =>
        Digest(borsh_next_bps(unwrap(B.next_bps))) = B.inner_lite.next_bp_hash

SixRules(H, B, V) ==
    /\ Rule1(H, B) /\ Rule2(H, B) /\ Rule3(H, B)
    /\ Rule4(B, V) /\ Rule5(B, V) /\ Rule6(B)

\* A call has run; its arguments are prev_head, block_view, prev_validators.
Called == verdict # "none"
\* The producers in the order the call met them.
Met == HashMap_iter(prev_validators, order)

(***************************************************************************)
(* C1: validate_light_block returns true exactly when the six rules hold,  *)
(* and false in every other case.                                          *)
(***************************************************************************)
C1_TrueIffSixRules ==
    Called =>
        /\ verdict \in {TRUE_, FALSE_}
        /\ verdict = TRUE_ <=> SixRules(prev_head, block_view, prev_validators)

(***************************************************************************)
(* C2: a higher block view of the head's epoch (which is not also the next *)
(* epoch), signed validly by every producer and without next_bps, is       *)
(* accepted: the head becomes the block view, the producers stay.          *)
(***************************************************************************)
AllSign(B, V) ==
    /\ Len(V) > 0
    /\ Len(B.approvals_after_next) = Len(V)
    /\ Signed(B, V) = 1..Len(V)
    /\ Rule4(B, V)

C2_SameEpochHappyPath ==
    ( /\ Called
      /\ Rule1(prev_head, block_view)
      /\ block_view.inner_lite.epoch_id = prev_head.inner_lite.epoch_id
      /\ block_view.inner_lite.epoch_id # prev_head.inner_lite.next_epoch_id
      /\ AllSign(block_view, prev_validators)
      /\ is_none(block_view.next_bps) )
    => /\ verdict = TRUE_
       /\ head = block_view
       /\ current_validators = prev_validators

(***************************************************************************)
(* C3: a call that does not accept the block view leaves the head and the  *)
(* block producers as they were.                                           *)
(***************************************************************************)
C3_RejectChangesNothing ==
    (Called /\ verdict # TRUE_) =>
        /\ head = prev_head
        /\ current_validators = prev_validators

\* A block view that differs from the head was rejected.
C3_Witness ==
    /\ verdict = FALSE_
    /\ block_view # prev_head
    /\ Rule1(prev_head, block_view)
    /\ head = prev_head

(***************************************************************************)
(* C4: on every accepted update the head becomes the block view; the block *)
(* producers are replaced by its next_bps exactly when its epoch is the    *)
(* old head's next epoch, and stay when it remains in the old head's       *)
(* epoch.                                                                  *)
(***************************************************************************)
C4_HeadAndProducersOnAccept ==
    verdict = TRUE_ =>
        /\ head = block_view
        /\ block_view.inner_lite.epoch_id = prev_head.inner_lite.next_epoch_id
               => current_validators = unwrap(block_view.next_bps)
        /\ block_view.inner_lite.epoch_id # prev_head.inner_lite.next_epoch_id
               => current_validators = prev_validators

C4_StaysInEpochKeepsProducers ==
    ( /\ verdict = TRUE_
      /\ block_view.inner_lite.epoch_id = prev_head.inner_lite.epoch_id )
    => current_validators = prev_validators

\* C4 as stated.
C4_AsStated == C4_HeadAndProducersOnAccept /\ C4_StaysInEpochKeepsProducers

\* C4 amended: the block producers stay when the block view's epoch is not
\* the old head's next epoch (which a block view of the old head's epoch
\* can be, when the old head's epoch_id and next_epoch_id are equal).
C4_Amended == C4_HeadAndProducersOnAccept

\* An accepted block view of the next epoch replaced the producers by others.
C4_Witness ==
    /\ verdict = TRUE_
    /\ block_view.inner_lite.epoch_id = prev_head.inner_lite.next_epoch_id
    /\ block_view.inner_lite.epoch_id # prev_head.inner_lite.epoch_id
    /\ head = block_view
    /\ current_validators = unwrap(block_view.next_bps)
    /\ current_validators # prev_validators

(***************************************************************************)
(* C5: a block view whose height is at most the head's height makes        *)
(* validate_light_block return false, whatever its other fields.           *)
(***************************************************************************)
C5_Monotonicity ==
    (Called /\ ~Rule1(prev_head, block_view)) => verdict = FALSE_

(***************************************************************************)
(* C6: with total the summed stake and approved the stake of the positions *)
(* with a valid signature, approved = floor(2 * total / 3) is rejected and *)
(* approved = floor(2 * total / 3) + 1 is accepted when rules 1, 2, 3, 4   *)
(* and 6 hold.                                                             *)
(***************************************************************************)
Total(B, V) == StakeOf(V, Zipped(B, V))
Approved(B, V) == StakeOf(V, {i \in Signed(B, V) : ValidAt(B, V, i)})

C6_QuorumBoundary ==
    Called =>
        /\ Approved(block_view, prev_validators)
               = (2 * Total(block_view, prev_validators)) \div 3
           => verdict = FALSE_
        /\ ( /\ Approved(block_view, prev_validators)
                    = (2 * Total(block_view, prev_validators)) \div 3 + 1
             /\ Rule1(prev_head, block_view) /\ Rule2(prev_head, block_view)
             /\ Rule3(prev_head, block_view) /\ Rule4(block_view, prev_validators)
             /\ Rule6(block_view) )
           => verdict = TRUE_

(***************************************************************************)
(* C7: whenever a block view is accepted, the producers whose signatures   *)
(* are present hold more than 2/3 of the stake of all the producers passed *)
(* to the call.                                                            *)
(***************************************************************************)
C7_QuorumOfWholeSet ==
    verdict = TRUE_ =>
        3 * StakeOf(Met, Signed(block_view, Met))
            > 2 * StakeOf(Met, 1..Len(Met))

(***************************************************************************)
(* C8: one present signature that does not verify under the key of the     *)
(* producer at its position makes validate_light_block return false.       *)
(***************************************************************************)
C8_BadSignatureRejects ==
    ( /\ Called
      /\ \E i \in Signed(block_view, Met) : ~ValidAt(block_view, Met, i) )
    => verdict = FALSE_

(***************************************************************************)
(* C9: a block view whose epoch is neither the head's epoch nor the head's *)
(* next epoch makes validate_light_block return false.                     *)
(***************************************************************************)
C9_EpochLinkage ==
    (Called /\ ~Rule2(prev_head, block_view)) => verdict = FALSE_

(***************************************************************************)
(* C10: a block view of the head's next epoch without next_bps makes       *)
(* validate_light_block return false.                                      *)
(***************************************************************************)
C10_EpochBoundaryCompleteness ==
    (Called /\ ~Rule3(prev_head, block_view)) => verdict = FALSE_

(***************************************************************************)
(* C11: every accepted block view with next_bps present carries the digest *)
(* of its encoded next_bps in next_bp_hash, and a block view with next_bps *)
(* present whose digest differs makes validate_light_block return false.   *)
(***************************************************************************)
C11_NextBpsCommitment ==
    /\ (verdict = TRUE_ /\ is_some(block_view.next_bps)) => Rule6(block_view)
    /\ (Called /\ is_some(block_view.next_bps) /\ ~Rule6(block_view))
           => verdict = FALSE_

(***************************************************************************)
(* C12: the approval at position i is checked against, and weighted by,    *)
(* the producer at position i of the ordered list of block producers: the  *)
(* call does what it does with the producers met in the order of the list. *)
(***************************************************************************)
ListOrder(V) == [i \in 1..Len(V) |-> i]

C12_PositionalAlignment ==
    Called =>
        verdict = validate_light_block(prev_head, block_view, prev_validators,
                                       ListOrder(prev_validators),
                                       overflow_checks)

(***************************************************************************)
(* C13: two block views that agree on inner_lite without                   *)
(* timestamp_nanosec, on inner_rest_hash and on prev_block_hash have equal *)
(* current_block_hash.                                                     *)
(***************************************************************************)
AgreeOnHashedFields(a, b) ==
    /\ a.inner_rest_hash = b.inner_rest_hash
    /\ a.prev_block_hash = b.prev_block_hash
    /\ \A f \in DOMAIN a.inner_lite \ {"timestamp_nanosec"} :
           a.inner_lite[f] = b.inner_lite[f]

C13_HashDeterminism ==
    (is_some(hash_a) /\ is_some(hash_b) /\ AgreeOnHashedFields(view_a, view_b))
        => hash_a = hash_b

\* Two block views that differ in timestamp_nanosec alone got equal hashes.
C13_Witness ==
    /\ is_some(hash_a) /\ is_some(hash_b)
    /\ view_a.inner_lite.timestamp_nanosec # view_b.inner_lite.timestamp_nanosec
    /\ AgreeOnHashedFields(view_a, view_b)
    /\ hash_a = hash_b

(***************************************************************************)
(* C14: current_block_hash is digest(digest(H_lite || inner_rest_hash) ||  *)
(* prev_block_hash), H_lite being the digest of the encoded inner lite     *)
(* without timestamp_nanosec, and next_block_hash is                       *)
(* digest(next_block_inner_hash || current_block_hash): 32-byte operands   *)
(* in that order, nothing before or between them.                          *)
(***************************************************************************)
\* The inner lite without timestamp_nanosec.
InnerLiteForHashing(B) ==
    [f \in DOMAIN B.inner_lite \ {"timestamp_nanosec"} |-> B.inner_lite[f]]
H_lite(B) == Digest(borsh_BlockHeaderInnerLiteViewFinal(InnerLiteForHashing(B)))
H_inner(B) == Digest(<<HashBytes(H_lite(B)), HashBytes(B.inner_rest_hash)>>)
CanonicalCurrent(B) ==
    Digest(<<HashBytes(H_inner(B)), HashBytes(B.prev_block_hash)>>)
CanonicalNext(B) ==
    Digest(<<HashBytes(B.next_block_inner_hash), HashBytes(CanonicalCurrent(B))>>)

C14_CanonicalHashChain ==
    /\ is_some(hash_a) => unwrap(hash_a) = CanonicalCurrent(view_a)
    /\ is_some(hash_b) => unwrap(hash_b) = CanonicalCurrent(view_b)
    /\ (is_some(fields) /\ ~unwrap(fields).panic) =>
           /\ unwrap(fields).current_block_hash = CanonicalCurrent(view_a)
           /\ unwrap(fields).next_block_hash = CanonicalNext(view_a)

\* The hashes of a block view were reconstructed, all its hash fields and
\* the two hashes being different values.
C14_Witness ==
    /\ is_some(fields) /\ ~unwrap(fields).panic /\ is_some(hash_b)
    /\ view_b.prev_block_hash # view_b.inner_rest_hash
    /\ unwrap(fields).next_block_hash = CanonicalNext(view_a)
    /\ unwrap(fields).next_block_hash # unwrap(fields).current_block_hash
    /\ unwrap(hash_b) = CanonicalCurrent(view_b)

(***************************************************************************)
(* C15: for every block view, the approval message that                    *)
(* reconstruct_light_client_block_view_fields returns is the byte 0x00,    *)
(* the 32 bytes of next_block_hash and the 8 bytes of the little-endian    *)
(* u64 height + 2: 41 bytes.                                               *)
(***************************************************************************)
\* The number of bytes of a byte string.
RECURSIVE ByteLen(_)
ByteLen(bytes) ==
    IF bytes = <<>> THEN 0
    ELSE (IF Head(bytes)[1] = "hash" THEN HashLen ELSE 1) + ByteLen(Tail(bytes))

C15_ApprovalMessageLayout ==
    is_some(fields) =>
        /\ ~unwrap(fields).panic
        /\ view_a.inner_lite.height + 2 <= U64Max
        /\ unwrap(fields).approval_message =
               <<U8(0), HashBytes(CanonicalNext(view_a))>>
                   \o to_le_bytes(view_a.inner_lite.height + 2, 8)
        /\ ByteLen(unwrap(fields).approval_message) = 41

(***************************************************************************)
(* C16: compute_root_from_path(path, leaf) is the left fold of the path    *)
(* from leaf, a Left item taking res to digest(item.hash || res) and a     *)
(* Right item taking res to digest(res || item.hash): a one-item Left path *)
(* gives digest(item.hash || leaf), a one-item Right path gives            *)
(* digest(leaf || item.hash), the empty path gives leaf.                   *)
(***************************************************************************)
\* The fold of the first n items of a path, from leaf.
RECURSIVE Fold(_, _, _)
Fold(p, n, leaf) ==
    IF n = 0 THEN leaf
    ELSE LET r == Fold(p, n - 1, leaf)
         IN  IF p[n].direction = "Left"
             THEN Digest(<<HashBytes(p[n].hash), HashBytes(r)>>)
             ELSE Digest(<<HashBytes(r), HashBytes(p[n].hash)>>)

\* compute_root_from_path has gone through the whole path: res is returned.
RootReturned == items_done = Len(path)

C16_MerkleFold ==
    /\ res = Fold(path, items_done, item_hash)
    /\ (RootReturned /\ Len(path) = 0) => res = item_hash
    /\ (RootReturned /\ Len(path) = 1 /\ path[1].direction = "Left")
           => res = Digest(<<HashBytes(path[1].hash), HashBytes(item_hash)>>)
    /\ (RootReturned /\ Len(path) = 1 /\ path[1].direction = "Right")
           => res = Digest(<<HashBytes(item_hash), HashBytes(path[1].hash)>>)

\* The root of a path with a Left item and then a Right item was returned.
C16_Witness ==
    /\ RootReturned
    /\ Len(path) >= 2
    /\ path[1].direction = "Left" /\ path[2].direction = "Right"
    /\ path[1].hash # path[2].hash
    /\ res = Fold(path, Len(path), item_hash)
    /\ res # item_hash

(***************************************************************************)
(* C17: for every domain type, a canonical byte string decoded into the    *)
(* type and encoded again gives the original bytes (which then decode      *)
(* upstream to the value they were encoded from).                          *)
(***************************************************************************)
\* The byte string received is the canonical encoding of the value sent.
IsCanonical == wire = Canonical(wire_type, sent)

\* Where a decoded value was encoded again, the bytes are those received;
\* every canonical byte string decodes, to the value that was sent.
C17_RoundTripWhereEncoded ==
    /\ is_some(reencoded) => unwrap(reencoded) = wire
    /\ (is_some(decoded) /\ IsCanonical) =>
           /\ unwrap(decoded).ok
           /\ unwrap(decoded).value = sent

\* Every domain type that decodes has the encoder the round trip needs.
C17_EveryTypeEncodes ==
    (is_some(decoded) /\ unwrap(decoded).ok) => wire_type \in BorshSerialize_types

\* C17 as stated.
C17_AsStated == C17_RoundTripWhereEncoded /\ C17_EveryTypeEncodes

\* C17 amended: the round trip holds for the types that have both a decoder
\* and an encoder.
C17_Amended == C17_RoundTripWhereEncoded

\* A block view with next_bps and a signature went through the round trip.
C17_Witness ==
    /\ wire_type = "LightClientBlockView"
    /\ IsCanonical
    /\ is_some(decoded) /\ unwrap(decoded).ok
    /\ is_some(unwrap(decoded).value.next_bps)
    /\ \E i \in 1..Len(unwrap(decoded).value.approvals_after_next) :
           is_some(unwrap(decoded).value.approvals_after_next[i])
    /\ is_some(reencoded)
    /\ unwrap(reencoded) = wire

C19_NoOverflowEffect ==
    verdict = TRUE_ =>
        3 * StakeOf(Met, Signed(block_view, Met))
            > 2 * StakeOf(Met, Zipped(block_view, Met))

(***************************************************************************)
(* C20: when approvals_after_next and the producers differ in length, only *)
(* the first min(len(approvals), len(producers)) positions count: the call *)
(* does what it does on the two lists cut to that length.                  *)
(***************************************************************************)
ZipLen == Min(Len(block_view.approvals_after_next), Len(Met))

C21_Deterministic ==
    Called =>
        \A other_order \in IterationOrders(Len(prev_validators)) :
            validate_light_block(prev_head, block_view, prev_validators,
                                 other_order, overflow_checks) = verdict

(***************************************************************************)
(* C22: with no block producers, or with no approvals, validate_light_block *)
(* returns false, whatever the block view.                                 *)
(***************************************************************************)
C22_EmptyRejects ==
    ( /\ Called
      /\ \/ prev_validators = <<>>
         \/ block_view.approvals_after_next = <<>> )
    => verdict = FALSE_

(***************************************************************************)
(* C23: in every step the head's height does not decrease; a call that     *)
(* accepts a block view makes it the head, at a height above the previous  *)
(* head's and in the previous head's epoch or next epoch; any other step   *)
(* leaves the head as it is.                                               *)
(***************************************************************************)
C23_HeadAdvances ==
    [][ /\ head'.inner_lite.height >= head.inner_lite.height
        /\ IF verdict = "none" /\ verdict' = TRUE_
           THEN /\ head' = block_view'
                /\ head'.inner_lite.height > head.inner_lite.height
                /\ head'.inner_lite.epoch_id
                       \in {head.inner_lite.epoch_id,
                            head.inner_lite.next_epoch_id}
           ELSE head' = head ]_vars

\* A second update after the checkpoint was accepted, and it took the head
\* into the next epoch.
C23_Witness ==
    /\ verdict = TRUE_
    /\ prev_head \notin CheckpointHeads
    /\ head = block_view
    /\ head.inner_lite.height > prev_head.inner_lite.height
    /\ head.inner_lite.epoch_id = prev_head.inner_lite.next_epoch_id
    /\ head.inner_lite.epoch_id # prev_head.inner_lite.epoch_id

(***************************************************************************)
(* C24: two heads that agree on height, epoch_id and next_epoch_id get the  *)
(* same result from validate_light_block for the same block view and block *)
(* producers; a block view is accepted whether or not its prev_block_hash  *)
(* is the head's hash.                                                     *)
(***************************************************************************)
AgreeOnLinkage(a, b) ==
    /\ a.inner_lite.height = b.inner_lite.height
    /\ a.inner_lite.epoch_id = b.inner_lite.epoch_id
    /\ a.inner_lite.next_epoch_id = b.inner_lite.next_epoch_id

C24_HeadOnlyThroughLinkage ==
    ( /\ is_some(result_a) /\ is_some(result_b)
      /\ AgreeOnLinkage(head_a, head_b) )
    => result_a = result_b

\* A block view that descends from head_a was accepted with head_a and with
\* a head of another hash.
C24_Witness ==
    /\ result_a = Some(TRUE_) /\ result_b = Some(TRUE_)
    /\ AgreeOnLinkage(head_a, head_b)
    /\ candidate_view.prev_block_hash = LightClientBlockView_current_block_hash(head_a)
    /\ candidate_view.prev_block_hash # LightClientBlockView_current_block_hash(head_b)

====
